---- MODULE Spec2Model ----
(***************************************************************************)
(* Model of yaml_pathfinder's PathFinder trait (src/src/pathfinder.rs):    *)
(* path resolution over a Yaml tree with alternative paths, and the typed  *)
(* getters layered on `field`.                                             *)
(*                                                                         *)
(* Text is modelled as sequences of one-character strings, so that the     *)
(* splitting of a path expression, the parsing of an array index and the   *)
(* lower-casing in get_bool are computed, not assumed.                     *)
(* An i64 is a sign and the set of bit positions of its magnitude; an f64  *)
(* is a sign and the set of bit positions of a binary number of at most    *)
(* F64Precision significant bits (exponent range is not modelled: every    *)
(* i64 is far inside it).                                                  *)
(***************************************************************************)
EXTENDS Integers, Sequences, FiniteSets, TLC

VARIABLES data, getter, expr, result, parserCalls

vars == <<data, getter, expr, result, parserCalls>>

(***************************************************************************)
(* Bounds and program constants                                            *)
(***************************************************************************)
\* the largest number of alternatives joined by "|" in an explored path
MaxAlts == 2

\* i64: 63 magnitude bits and a sign (pathfinder.rs:121, FieldResult<i64>)
I64MagnitudeBits == 63

\* f64: 53 significant bits (pathfinder.rs:168, FieldResult<f64>)
F64Precision == 53

(***************************************************************************)
(* Option<T>: None is the empty sequence, Some(x) the singleton.           *)
(***************************************************************************)
None == <<>>

Some(x) == <<x>>

IsSome(o) == o # <<>>

Unwrap(o) == o[1]

(***************************************************************************)
(* Numbers                                                                 *)
(***************************************************************************)
MaxOf(S) == CHOOSE x \in S : \A y \in S : y <= x

MinOf(S) == CHOOSE x \in S : \A y \in S : x <= y

\* an i64 value: sign and magnitude bits
I64(neg, bits) == [neg |-> neg, bits |-> bits]

\* is v a value an i64 can hold: -2^63 .. 2^63-1
IsI64(v) == \/ v.bits \subseteq 0..(I64MagnitudeBits - 1)
            \/ v.neg /\ v.bits = {I64MagnitudeBits}

\* is v exactly an f64: at most F64Precision significant bits
IsF64(v) == v.bits = {} \/ MaxOf(v.bits) - MinOf(v.bits) < F64Precision

\* add one unit at bit position p to the binary number `bits` (carry chain)
AddBit(bits, p) == LET q == CHOOSE q \in p..(MaxOf(bits \cup {p}) + 1) : q \notin bits /\ \A r \in p..(q - 1) : r \in bits
                   IN  (bits \ (p..(q - 1))) \cup {q}

\* `n as f64`: round the integer to F64Precision significant bits, ties to even
I64ToF64(n) == IF IsF64(n) THEN n
               ELSE LET cut  == MaxOf(n.bits) - (F64Precision - 1)
                        kept == {p \in n.bits : p >= cut}
                        half == (cut - 1) \in n.bits
                        rest == \E p \in n.bits : p < cut - 1
                        up   == half /\ (rest \/ cut \in n.bits)
                    IN  [neg |-> n.neg, bits |-> IF up THEN AddBit(kept, cut) ELSE kept]

(***************************************************************************)
(* yaml_rust::Yaml nodes.  Every node is a record of the same shape:       *)
(*   tag  the variant: Hash Array String Integer Real Boolean Null BadValue*)
(*   s    String's text          i  Integer's value                        *)
(*   f    Real: what parse_f64 makes of its text (None: not a float)       *)
(*   b    Boolean's value        h  Hash's entries <<[k, v], ...>>         *)
(*   a    Array's elements                                                 *)
(***************************************************************************)
Node(tag, s, i, f, b, h, a) == [tag |-> tag, s |-> s, i |-> i, f |-> f, b |-> b, h |-> h, a |-> a]

YNull == Node("Null", <<>>, I64(FALSE, {}), None, FALSE, <<>>, <<>>)

YBadValue == Node("BadValue", <<>>, I64(FALSE, {}), None, FALSE, <<>>, <<>>)

YString(s) == Node("String", s, I64(FALSE, {}), None, FALSE, <<>>, <<>>)

YInteger(i) == Node("Integer", <<>>, i, None, FALSE, <<>>, <<>>)

YReal(f) == Node("Real", <<>>, I64(FALSE, {}), f, FALSE, <<>>, <<>>)

YBoolean(b) == Node("Boolean", <<>>, I64(FALSE, {}), None, b, <<>>, <<>>)

YHash(h) == Node("Hash", <<>>, I64(FALSE, {}), None, FALSE, h, <<>>)

YArray(a) == Node("Array", <<>>, I64(FALSE, {}), None, FALSE, <<>>, a)

Entry(k, v) == [k |-> k, v |-> v]

\* Yaml::as_str, as_i64, as_f64, as_bool, as_hash, as_vec
as_str(y) == IF y.tag = "String" THEN Some(y.s) ELSE None

as_i64(y) == IF y.tag = "Integer" THEN Some(y.i) ELSE None

as_f64(y) == IF y.tag = "Real" THEN y.f ELSE None

as_bool(y) == IF y.tag = "Boolean" THEN Some(y.b) ELSE None

as_hash(y) == IF y.tag = "Hash" THEN Some(y.h) ELSE None

as_vec(y) == IF y.tag = "Array" THEN Some(y.a) ELSE None

\* LinkedHashMap::get: the value of the entry whose key equals k
HashGet(h, k) == IF \E n \in 1..Len(h) : h[n].k = k
                 THEN Some(h[CHOOSE n \in 1..Len(h) : h[n].k = k].v)
                 ELSE None

\* slice::get: the element at 0-based offset index
VecGet(a, index) == IF index < Len(a) THEN Some(a[index + 1]) ELSE None

(***************************************************************************)
(* Text                                                                    *)
(***************************************************************************)
Digits == <<"0", "1", "2", "3", "4", "5", "6", "7", "8", "9">>

UpperCase == <<"A", "B", "C", "D", "E", "F", "G", "H", "I", "J", "K", "L", "M", "N", "O", "P", "Q", "R", "S", "T", "U", "V", "W", "X", "Y", "Z">>

LowerCase == <<"a", "b", "c", "d", "e", "f", "g", "h", "i", "j", "k", "l", "m", "n", "o", "p", "q", "r", "s", "t", "u", "v", "w", "x", "y", "z">>

Whitespace == {" ", "\t", "\n", "\r"}

IndexOf(seq, c) == CHOOSE n \in 1..Len(seq) : seq[n] = c

InSeq(seq, c) == \E n \in 1..Len(seq) : seq[n] = c

\* str::to_lowercase
to_lowercase(s) == [n \in 1..Len(s) |-> IF InSeq(UpperCase, s[n]) THEN LowerCase[IndexOf(UpperCase, s[n])] ELSE s[n]]

\* str::split on any of the separators: always at least one piece
RECURSIVE Split(_, _)
Split(s, seps) == IF \A n \in 1..Len(s) : s[n] \notin seps
                  THEN <<s>>
                  ELSE LET n == CHOOSE n \in 1..Len(s) : s[n] \in seps /\ \A m \in 1..(n - 1) : s[m] \notin seps
                       IN  <<SubSeq(s, 1, n - 1)>> \o Split(SubSeq(s, n + 1, Len(s)), seps)

RECURSIVE DigitsValue(_)
DigitsValue(s) == IF s = <<>> THEN 0 ELSE 10 * DigitsValue(SubSeq(s, 1, Len(s) - 1)) + (IndexOf(Digits, s[Len(s)]) - 1)

\* str::parse::<usize>: an optional "+", then one or more decimal digits
\* (explored segments are short, so usize overflow does not arise)
parse_usize(s) == LET body == IF s # <<>> /\ s[1] = "+" THEN Tail(s) ELSE s
                  IN  IF body # <<>> /\ \A n \in 1..Len(body) : InSeq(Digits, body[n])
                      THEN Some(DigitsValue(body))
                      ELSE None

(***************************************************************************)
(* Path expressions: crate::path (YPaths, YPath).  That file is not part   *)
(* of the sources at hand; these three definitions follow the written      *)
(* specification of the path syntax.                                       *)
(***************************************************************************)
\* variant: whitespace is let through
YPaths_from_lenient(path) == [panic |-> FALSE, raw |-> path]

\* Into<YPaths>: a path expression holding whitespace is refused by assertion
YPaths_from(path) == [panic |-> \E n \in 1..Len(path) : path[n] \in Whitespace, raw |-> path]

\* YPaths::alternatives: the pieces between "|", left to right
alternatives(paths) == Split(paths.raw, {"|"})

\* YPath::elements: the pieces between "." or "/"
elements(path) == Split(path, {".", "/"})

(***************************************************************************)
(* trait PathFinder                                                        *)
(***************************************************************************)
RECURSIVE get_path(_, _)
\* variant: a segment that is no index reads element 0 of an Array
get_path_index_or_zero(d, path) == IF path = <<>> THEN None
                                   ELSE LET seg       == Head(path)
                                            remainder == Tail(path)
                                        IN  CASE d.tag = "Hash" ->
                                                   LET c == HashGet(d.h, YString(seg))
                                                   IN  IF remainder = <<>> THEN c
                                                       ELSE IF IsSome(c) THEN get_path(Unwrap(c), remainder) ELSE None
                                              [] d.tag = "Array" ->
                                                   LET index == parse_usize(seg)
                                                       c     == VecGet(d.a, IF IsSome(index) THEN Unwrap(index) ELSE 0)
                                                   IN  IF remainder = <<>> THEN c
                                                       ELSE IF IsSome(c) THEN get_path(Unwrap(c), remainder) ELSE None
                                              [] OTHER -> None

\* variant: a scalar met with segments left is the answer
get_path_stop_at_scalar(d, path) == IF path = <<>> THEN None
                                    ELSE LET seg       == Head(path)
                                             remainder == Tail(path)
                                         IN  CASE d.tag = "Hash" ->
                                                    LET c == HashGet(d.h, YString(seg))
                                                    IN  IF remainder = <<>> THEN c
                                                        ELSE IF IsSome(c) THEN get_path(Unwrap(c), remainder) ELSE None
                                               [] d.tag = "Array" ->
                                                    LET index == parse_usize(seg)
                                                    IN  IF IsSome(index)
                                                        THEN LET c == VecGet(d.a, Unwrap(index))
                                                             IN  IF remainder = <<>> THEN c
                                                                 ELSE IF IsSome(c) THEN get_path(Unwrap(c), remainder) ELSE None
                                                        ELSE None
                                               [] OTHER -> Some(d)

\* Returns content at `path` in the yaml document.
get_path(d, path) == IF path = <<>> THEN None
                     ELSE LET seg       == Head(path)
                              remainder == Tail(path)
                          IN  CASE d.tag = "Hash" ->
                                     LET c == HashGet(d.h, YString(seg))
                                     IN  IF remainder = <<>> THEN c
                                         ELSE IF IsSome(c) THEN get_path(Unwrap(c), remainder) ELSE None
                                [] d.tag = "Array" ->
                                     LET index == parse_usize(seg)
                                     IN  IF IsSome(index)
                                         THEN LET c == VecGet(d.a, Unwrap(index))
                                              IN  IF remainder = <<>> THEN c
                                                  ELSE IF IsSome(c) THEN get_path(Unwrap(c), remainder) ELSE None
                                         ELSE None
                                [] OTHER -> None

\* variant: Null and BadValue are handed on as found
get_direct_keep_null(d, path) == get_path(d, elements(path))

\* Wrapper around get_path: replaces Yaml::Null and Yaml::BadValue by None.
get_direct(d, path) == LET content == get_path(d, elements(path))
                       IN  IF IsSome(content) /\ Unwrap(content).tag \in {"BadValue", "Null"} THEN None ELSE content

\* variant: the last alternative that resolves wins
get_last(d, paths) == LET alts  == alternatives(paths)
                          found == {n \in 1..Len(alts) : IsSome(get_direct(d, alts[n]))}
                      IN  IF found = {} THEN None ELSE get_direct(d, alts[MaxOf(found)])

\* variant: only the first alternative is tried
get_first_only(d, paths) == get_direct(d, alternatives(paths)[1])

\* alternatives().filter_map(get_direct).nth(0)
get(d, paths) == LET alts  == alternatives(paths)
                     found == {n \in 1..Len(alts) : IsSome(get_direct(d, alts[n]))}
                 IN  IF found = {} THEN None ELSE get_direct(d, alts[MinOf(found)])

\* FieldResult<T> and FieldError; Panicked is the unwinding of a failed assertion
Ok(v) == [kind |-> "Ok", val |-> <<v>>, msg |-> <<>>]

Missing == [kind |-> "Missing", val |-> <<>>, msg |-> <<>>]

\* format!("{} ({:?})", err, node)
Invalid(err, node) == [kind |-> "Invalid", val |-> <<>>, msg |-> <<[label |-> err, node |-> node]>>]

Panicked == [kind |-> "Panic", val |-> <<>>, msg |-> <<>>]

\* variant: "yes" is true, "no" is false, any other text is refused
bool_parser_yes_no(y) == IF IsSome(as_bool(y)) THEN as_bool(y)
                         ELSE IF IsSome(as_str(y)) /\ to_lowercase(Unwrap(as_str(y))) \in {<<"y", "e", "s">>, <<"n", "o">>} THEN Some(to_lowercase(Unwrap(as_str(y))) = <<"y", "e", "s">>)
                         ELSE None

\* the closure get_bool hands to field
bool_parser(y) == IF IsSome(as_bool(y)) THEN as_bool(y)
                  ELSE IF IsSome(as_str(y)) THEN Some(to_lowercase(Unwrap(as_str(y))) = <<"y", "e", "s">>)
                  ELSE None

\* variant: an Integer is not reinterpreted
f64_parser_no_widening(y) == as_f64(y)

\* the closure get_f64 hands to field
f64_parser(y) == IF IsSome(as_f64(y)) THEN as_f64(y)
                 ELSE IF IsSome(as_i64(y)) THEN Some(I64ToF64(Unwrap(as_i64(y))))
                 ELSE None

\* the `parser` argument of field, named by the function the getter passes
parser_call(parser, y) == CASE parser = "as_str" -> as_str(y)
                            [] parser = "as_i64" -> as_i64(y)
                            [] parser = "as_bool" -> as_bool(y)
                            [] parser = "as_hash" -> as_hash(y)
                            [] parser = "as_vec" -> as_vec(y)
                            [] parser = "bool_parser" -> bool_parser(y)
                            [] parser = "f64_parser" -> f64_parser(y)

\* variant: a node the parser refuses counts as missing
field_missing_on_reject(d, path, err, parser) == LET paths == YPaths_from(path)
                                                 IN  IF paths.panic THEN [res |-> Panicked, calls |-> 0]
                                                     ELSE LET res == get(d, paths)
                                                          IN  IF ~IsSome(res) THEN [res |-> Missing, calls |-> 0]
                                                              ELSE LET parsed == parser_call(parser, Unwrap(res))
                                                                   IN  IF ~IsSome(parsed)
                                                                       THEN [res |-> Missing, calls |-> 1]
                                                                       ELSE [res |-> Ok(Unwrap(parsed)), calls |-> 1]

\* variant: after a refusal the later alternatives are tried as well
field_retry(d, path, err, parser) == LET paths == YPaths_from(path)
                                         alts  == alternatives(paths)
                                         found == {n \in 1..Len(alts) : IsSome(get_direct(d, alts[n]))}
                                         good  == {n \in found : IsSome(parser_call(parser, Unwrap(get_direct(d, alts[n]))))}
                                     IN  IF paths.panic THEN [res |-> Panicked, calls |-> 0]
                                         ELSE IF found = {} THEN [res |-> Missing, calls |-> 0]
                                         ELSE IF good = {} THEN [res |-> Invalid(err, Unwrap(get_direct(d, alts[MinOf(found)]))), calls |-> Cardinality(found)]
                                         ELSE [res |-> Ok(Unwrap(parser_call(parser, Unwrap(get_direct(d, alts[MinOf(good)]))))), calls |-> Cardinality({n \in found : n <= MinOf(good)})]

\* Gets the field for a given path: the result and how often parser ran.
field(d, path, err, parser) == LET paths == YPaths_from(path)
                               IN  IF paths.panic THEN [res |-> Panicked, calls |-> 0]
                                   ELSE LET res == get(d, paths)
                                        IN  IF ~IsSome(res) THEN [res |-> Missing, calls |-> 0]
                                            ELSE LET parsed == parser_call(parser, Unwrap(res))
                                                 IN  IF ~IsSome(parsed)
                                                     THEN [res |-> Invalid(err, Unwrap(res)), calls |-> 1]
                                                     ELSE [res |-> Ok(Unwrap(parsed)), calls |-> 1]

get_str(d, path) == field(d, path, "not a string", "as_str")

\* .map(Into::into) copies the &str into a String of the same characters
get_string(d, path) == field(d, path, "not a string", "as_str")

get_int(d, path) == field(d, path, "not an integer", "as_i64")

get_bool(d, path) == field(d, path, "not a boolean", "bool_parser")

get_bool_strict(d, path) == field(d, path, "not a boolean", "as_bool")

get_hash(d, path) == field(d, path, "not a hash", "as_hash")

get_vec(d, path) == field(d, path, "not a vector", "as_vec")

get_f64(d, path) == field(d, path, "not a float", "f64_parser")

(***************************************************************************)
(* Documents and path expressions explored                                 *)
(***************************************************************************)
S_offer == <<"o", "f", "f", "e", "r">>

S_date == <<"d", "a", "t", "e">>

S_offer_date == <<"o", "f", "f", "e", "r", "_", "d", "a", "t", "e">>

S_0711 == <<"0", "7", ".", "1", "1", ".", "2", "0", "1", "9">>

S_0811 == <<"0", "8", ".", "1", "1", ".", "2", "0", "1", "9">>

\* 2^53 + 1, the smallest positive integer that is not an f64
BigOdd == I64(FALSE, {0, F64Precision})

\* i64::MIN and i64::MAX
I64Min == I64(TRUE, {I64MagnitudeBits})

I64Max == I64(FALSE, 0..(I64MagnitudeBits - 1))

Seven == I64(FALSE, {0, 1, 2})

\* 1.5
OneAndHalf == [neg |-> FALSE, bits |-> {0, -1}]

\* NO_FALLBACK_PATH and FALLBACK_PATH of the tests
D_NoFallback == YHash(<<Entry(YString(S_offer), YHash(<<Entry(YString(S_date), YString(S_0711))>>))>>)

D_Fallback == YHash(<<Entry(YString(S_offer_date), YString(S_0811))>>)

D_Both == YHash(<<Entry(YString(S_offer), YHash(<<Entry(YString(S_date), YInteger(Seven))>>)), Entry(YString(S_offer_date), YString(<<"Y", "e", "s">>))>>)

D_NullFirst == YHash(<<Entry(YString(S_offer), YHash(<<Entry(YString(S_date), YNull)>>)), Entry(YString(S_offer_date), YBoolean(TRUE))>>)

D_Bad == YHash(<<Entry(YString(S_offer), YBadValue), Entry(YString(S_offer_date), YReal(Some(OneAndHalf)))>>)

D_Array == YHash(<<Entry(YString(S_offer), YArray(<<YHash(<<Entry(YString(S_date), YString(<<"Y", "E", "S">>))>>), YInteger(BigOdd)>>)), Entry(YString(S_offer_date), YArray(<<>>))>>)

D_Short == YHash(<<Entry(YString(S_offer), YArray(<<YString(<<"n", "o">>), YString(<<"t", "r", "u", "e">>)>>)), Entry(YString(S_offer_date), YInteger(I64Min))>>)

D_Yes == YHash(<<Entry(YString(S_offer), YHash(<<Entry(YString(S_date), YString(<<"y", "e", "s">>))>>)), Entry(YString(S_offer_date), YBoolean(FALSE))>>)

D_IntKey == YHash(<<Entry(YString(S_offer), YHash(<<Entry(YInteger(I64(FALSE, {})), YString(S_0711)), Entry(YString(S_date), YInteger(I64Max))>>)), Entry(YString(S_offer_date), YReal(None))>>)

\* -(2^53 + 3), which rounds away from zero
BigNegative == I64(TRUE, {0, 1, F64Precision})

D_Round == YHash(<<Entry(YString(S_offer), YHash(<<Entry(YString(S_date), YInteger(BigNegative))>>)), Entry(YString(S_offer_date), YBoolean(FALSE))>>)

\* documents whose root is not a Hash
D_RootArray == YArray(<<YString(S_0711), YNull>>)

D_RootScalar == YString(S_0811)

Docs == {D_Round, D_RootArray, D_RootScalar, D_NoFallback, D_Fallback, D_Both, D_NullFirst, D_Bad, D_Array, D_Short, D_Yes, D_IntKey}

\* single alternatives; the last two hold whitespace
AltVocab == {S_offer \o <<".">> \o S_date, S_offer_date, S_offer \o <<"/", "0">>, S_offer \o <<"/", "0", ".">> \o S_date, S_offer \o <<".", "+", "1">>, S_offer_date \o <<".", "x">>, S_offer \o <<".">> \o S_date \o <<" ">>, <<" ">> \o S_offer_date}

\* alternatives joined by "|"
RECURSIVE JoinedAlts(_)
JoinedAlts(n) == IF n = 1 THEN AltVocab ELSE {p \o <<"|">> \o a : p \in JoinedAlts(n - 1), a \in AltVocab}

PathExprs == UNION {JoinedAlts(n) : n \in 1..MaxAlts}

Getters == {"get_str", "get_string", "get_int", "get_bool", "get_bool_strict", "get_hash", "get_vec", "get_f64"}

(***************************************************************************)
(* The state machine: a provider holding one document; the caller makes a  *)
(* lookup, takes its FieldResult, and makes the next one.                  *)
(***************************************************************************)
Init == /\ data \in Docs
        /\ getter = "none"
        /\ expr = <<>>
        /\ result = Missing
        /\ parserCalls = 0

Returned(g, path, out) == /\ getter = "none"
                          /\ getter' = g
                          /\ expr' = path
                          /\ result' = out.res
                          /\ parserCalls' = out.calls
                          /\ UNCHANGED data

CallGetStr == \E path \in PathExprs : Returned("get_str", path, get_str(data, path))

CallGetString == \E path \in PathExprs : Returned("get_string", path, get_string(data, path))

CallGetInt == \E path \in PathExprs : Returned("get_int", path, get_int(data, path))

CallGetBool == \E path \in PathExprs : Returned("get_bool", path, get_bool(data, path))

CallGetBoolStrict == \E path \in PathExprs : Returned("get_bool_strict", path, get_bool_strict(data, path))

CallGetHash == \E path \in PathExprs : Returned("get_hash", path, get_hash(data, path))

CallGetVec == \E path \in PathExprs : Returned("get_vec", path, get_vec(data, path))

CallGetF64 == \E path \in PathExprs : Returned("get_f64", path, get_f64(data, path))

\* the caller consumes the FieldResult (the tests' assert_eq!)
Consume == /\ getter # "none"
           /\ getter' = "none"
           /\ expr' = <<>>
           /\ result' = Missing
           /\ parserCalls' = 0
           /\ UNCHANGED data

Next == \/ CallGetStr
        \/ CallGetString
        \/ CallGetInt
        \/ CallGetBool
        \/ CallGetBoolStrict
        \/ CallGetHash
        \/ CallGetVec
        \/ CallGetF64
        \/ Consume

Spec == Init /\ [][Next]_vars

(***************************************************************************)
(* Vocabulary of the properties                                            *)
(***************************************************************************)
Called == getter # "none"

HasWhitespace(p) == \E n \in 1..Len(p) : p[n] \in Whitespace

\* the outcome of getter g on document d and path expression p
Outcome(g, d, p) == CASE g = "get_str" -> get_str(d, p)
                      [] g = "get_string" -> get_string(d, p)
                      [] g = "get_int" -> get_int(d, p)
                      [] g = "get_bool" -> get_bool(d, p)
                      [] g = "get_bool_strict" -> get_bool_strict(d, p)
                      [] g = "get_hash" -> get_hash(d, p)
                      [] g = "get_vec" -> get_vec(d, p)
                      [] g = "get_f64" -> get_f64(d, p)

\* does getter g's coercion accept node y
Accepts(g, y) == CASE g \in {"get_str", "get_string"} -> IsSome(as_str(y))
                   [] g = "get_int" -> IsSome(as_i64(y))
                   [] g = "get_bool" -> IsSome(bool_parser(y))
                   [] g = "get_bool_strict" -> IsSome(as_bool(y))
                   [] g = "get_hash" -> IsSome(as_hash(y))
                   [] g = "get_vec" -> IsSome(as_vec(y))
                   [] g = "get_f64" -> IsSome(f64_parser(y))

LabelOf(g) == CASE g \in {"get_str", "get_string"} -> "not a string"
                [] g = "get_int" -> "not an integer"
                [] g \in {"get_bool", "get_bool_strict"} -> "not a boolean"
                [] g = "get_hash" -> "not a hash"
                [] g = "get_vec" -> "not a vector"
                [] g = "get_f64" -> "not a float"

\* the alternatives of a path expression and the segments of an alternative
Alts(p) == Split(p, {"|"})

Segs(alt) == Split(alt, {".", "/"})

\* the node the walker reaches from d along the first k segments
Reached(d, segs, k) == IF k = 0 THEN Some(d) ELSE get_path(d, SubSeq(segs, 1, k))

\* the node an alternative walks to, when it is neither Null nor BadValue
Usable(d, alt) == LET c == get_path(d, Segs(alt))
                  IN  IF IsSome(c) /\ Unwrap(c).tag \notin {"Null", "BadValue"} THEN c ELSE None

\* the alternatives of p, by position, that walk to a usable node
UsableAlts(d, p) == {n \in 1..Len(Alts(p)) : IsSome(Usable(d, Alts(p)[n]))}

\* the node of the first such alternative
FirstUsable(d, p) == IF UsableAlts(d, p) = {} THEN None ELSE Usable(d, Alts(p)[MinOf(UsableAlts(d, p))])

\* path expression p resolves on d: get yields a node
Resolves(d, p) == ~HasWhitespace(p) /\ IsSome(get(d, YPaths_from(p)))

Scalar(y) == y.tag \notin {"Hash", "Array"}

P_offer_date == S_offer \o <<".">> \o S_date

P_fallback == S_offer \o <<".">> \o S_date \o <<"|">> \o S_offer_date

\* the two sides of the "|" at position n of the path expression of the call
SideA(n) == SubSeq(expr, 1, n - 1)

SideB(n) == SubSeq(expr, n + 1, Len(expr))

(***************************************************************************)
(* Properties                                                              *)
(***************************************************************************)
\* C1: alternative precedence. For a call on "a|b" where a and b both
\* resolve to a usable node, get yields the node of a and the getter returns
\* exactly what it returns on "a" alone.
C1_AlternativePrecedence ==
    Called =>
        \A n \in 1..Len(expr) :
            (expr[n] = "|" /\ Resolves(data, SideA(n)) /\ Resolves(data, SideB(n))) =>
                /\ result = Outcome(getter, data, SideA(n)).res
                /\ get(data, YPaths_from(expr)) = get(data, YPaths_from(SideA(n)))

\* a call on "a|b" where both sides resolve, to different nodes, and a's is accepted
C1_Witness ==
    /\ Called
    /\ result.kind = "Ok"
    /\ \E n \in 1..Len(expr) :
        /\ expr[n] = "|"
        /\ Resolves(data, SideA(n))
        /\ Resolves(data, SideB(n))
        /\ get(data, YPaths_from(SideA(n))) # get(data, YPaths_from(SideB(n)))

\* C2: fallback. For a call on "a|b" where a is absent or walks to Null or
\* BadValue and b resolves to a usable node, the getter returns exactly what
\* it returns on "b" alone; {offer_date: "08.11.2019"} with
\* "offer.date|offer_date" yields Ok("08.11.2019").
C2_Fallback ==
    Called =>
        /\ \A n \in 1..Len(expr) :
            (expr[n] = "|" /\ ~HasWhitespace(SideA(n)) /\ UsableAlts(data, SideA(n)) = {} /\ Resolves(data, SideB(n))) =>
                /\ result = Outcome(getter, data, SideB(n)).res
                /\ get(data, YPaths_from(expr)) = get(data, YPaths_from(SideB(n)))
        /\ (data = D_Fallback /\ getter = "get_str" /\ expr = P_fallback) => result = Ok(S_0811)

\* the second end-to-end example of the tests
C2_Witness ==
    data = D_Fallback /\ getter = "get_str" /\ expr = P_fallback /\ result = Ok(S_0811)

\* C3: Missing versus Invalid. A call returns Missing exactly when no
\* alternative walks to a usable node, Invalid exactly when one does and the
\* getter's coercion rejects the node found, and Ok exactly when it accepts
\* it; get_int on a String node is Invalid.
C3_MissingVersusInvalid ==
    (Called /\ ~HasWhitespace(expr)) =>
        LET found == FirstUsable(data, expr)
        IN  /\ result.kind = "Missing" <=> ~IsSome(found)
            /\ result.kind = "Invalid" <=> (IsSome(found) /\ ~Accepts(getter, Unwrap(found)))
            /\ result.kind = "Ok" <=> (IsSome(found) /\ Accepts(getter, Unwrap(found)))
            /\ (getter = "get_int" /\ IsSome(found) /\ Unwrap(found).tag = "String") => result.kind = "Invalid"

\* get_int found a String
C3_Witness ==
    /\ getter = "get_int"
    /\ ~HasWhitespace(expr)
    /\ IsSome(FirstUsable(data, expr))
    /\ Unwrap(FirstUsable(data, expr)).tag = "String"
    /\ result.kind = "Invalid"

\* C4: Null/absent equivalence. On a path of one alternative, a key that is
\* absent and a key holding Null or BadValue both yield Missing, for every
\* getter.
C4_NullAbsentEquivalence ==
    (Called /\ ~HasWhitespace(expr) /\ Len(Alts(expr)) = 1) =>
        LET c == get_path(data, Segs(expr))
        IN  (~IsSome(c) \/ Unwrap(c).tag \in {"Null", "BadValue"}) => result = Missing

\* a call whose single alternative walks to a node that is there and is Null
C4_Witness ==
    /\ Called
    /\ ~HasWhitespace(expr)
    /\ Len(Alts(expr)) = 1
    /\ get_path(data, Segs(expr)) = Some(YNull)
    /\ result = Missing

OnArray(d, segs, k) ==
    LET prev == Reached(d, segs, k - 1) IN IsSome(prev) /\ Unwrap(prev).tag = "Array"

\* C6: array index parsing. Where the walker stands on an Array, a segment
\* that parses as a non-negative decimal integer i leads to the element at
\* 0-based offset i, or to nothing when i is past the end; a segment that
\* does not parse leaves the alternative unresolved, so a call all of whose
\* alternatives fail this way yields Missing; no segment raises an error.
C6_ArrayIndexParsing ==
    (Called /\ ~HasWhitespace(expr)) =>
        /\ \A n \in 1..Len(Alts(expr)) :
            LET segs == Segs(Alts(expr)[n])
            IN  \A k \in 1..Len(segs) :
                    LET elems == Unwrap(Reached(data, segs, k - 1)).a
                        i     == parse_usize(segs[k])
                    IN  OnArray(data, segs, k) =>
                            IF IsSome(i)
                            THEN Reached(data, segs, k) = (IF Unwrap(i) < Len(elems) THEN Some(elems[Unwrap(i) + 1]) ELSE None)
                            ELSE Reached(data, segs, k) = None /\ Usable(data, Alts(expr)[n]) = None
        /\ (\A n \in 1..Len(Alts(expr)) :
                LET segs == Segs(Alts(expr)[n])
                IN  \E k \in 1..Len(segs) : OnArray(data, segs, k) /\ ~IsSome(parse_usize(segs[k])))
           => result = Missing
        /\ result # Panicked

\* a call that reads the element at offset 1 of an Array
C6_Witness ==
    /\ Called
    /\ ~HasWhitespace(expr)
    /\ result.kind = "Ok"
    /\ LET segs == Segs(expr)
           k    == Len(segs)
       IN  /\ OnArray(data, segs, k)
           /\ parse_usize(segs[k]) = Some(1)
           /\ Len(Unwrap(Reached(data, segs, k - 1)).a) > 1

\* "yes" in any mix of cases
IsYes(s) == Len(s) = 3 /\ s[1] \in {"y", "Y"} /\ s[2] \in {"e", "E"} /\ s[3] \in {"s", "S"}

\* C7: lenient boolean quirk. get_bool returns a Boolean node's value; on a
\* String node it returns Ok(true) exactly when the text is "yes" in any case
\* and Ok(false) for every other text; on any other node found it returns
\* Invalid. get_bool_strict returns Invalid for every String node.
C7_LenientBoolean ==
    (Called /\ ~HasWhitespace(expr) /\ IsSome(FirstUsable(data, expr))) =>
        LET y == Unwrap(FirstUsable(data, expr))
        IN  /\ (getter = "get_bool" /\ y.tag = "Boolean") => result = Ok(y.b)
            /\ (getter = "get_bool" /\ y.tag = "String") => result = Ok(IsYes(y.s))
            /\ (getter = "get_bool" /\ y.tag \notin {"Boolean", "String"}) => result.kind = "Invalid"
            /\ (getter = "get_bool_strict" /\ y.tag = "String") => result.kind = "Invalid"

\* get_bool found the String "true" and returned Ok(false)
C7_Witness ==
    /\ getter = "get_bool"
    /\ ~HasWhitespace(expr)
    /\ FirstUsable(data, expr) = Some(YString(<<"t", "r", "u", "e">>))
    /\ result = Ok(FALSE)

\* C8 as stated: get_f64 on an Integer node n returns Ok of the float
\* numerically equal to n, for every n; on a Real node that float; on any
\* other node found Invalid.
C8_FloatWideningExact ==
    (getter = "get_f64" /\ ~HasWhitespace(expr) /\ IsSome(FirstUsable(data, expr))) =>
        LET y == Unwrap(FirstUsable(data, expr))
        IN  /\ y.tag = "Integer" => result = Ok(y.i)
            /\ (y.tag = "Real" /\ IsSome(y.f)) => result = Ok(Unwrap(y.f))
            /\ y.tag \notin {"Integer", "Real"} => result.kind = "Invalid"

\* the f64 v is the i64 n rounded to F64Precision significant bits
RoundedFrom(v, n) ==
    /\ IsF64(v)
    /\ v.neg = n.neg
    /\ IsF64(n) => v = n
    /\ ~IsF64(n) =>
        /\ v # n
        /\ MaxOf(v.bits) \in {MaxOf(n.bits), MaxOf(n.bits) + 1}
        /\ MinOf(v.bits) > MaxOf(n.bits) - F64Precision

\* C8, amended: get_f64 on an Integer node n never returns Invalid; it
\* returns Ok of an f64 of n's sign that is numerically equal to n whenever n
\* has at most 53 significant bits (so for every |n| <= 2^53), and otherwise
\* of n rounded to 53 significant bits, which differs from n. On a Real node
\* whose text is a float it returns that float, on a Real node whose text is
\* not a float and on any other node found it returns Invalid.
C8_FloatWidening ==
    (getter = "get_f64" /\ ~HasWhitespace(expr) /\ IsSome(FirstUsable(data, expr))) =>
        LET y == Unwrap(FirstUsable(data, expr))
        IN  /\ y.tag = "Integer" => (result.kind = "Ok" /\ RoundedFrom(result.val[1], y.i))
            /\ (y.tag = "Real" /\ IsSome(y.f)) => result = Ok(Unwrap(y.f))
            /\ (y.tag = "Real" /\ ~IsSome(y.f)) => result.kind = "Invalid"
            /\ y.tag \notin {"Integer", "Real"} => result.kind = "Invalid"

\* get_f64 found the Integer 2^53 + 1 and returned the float 2^53
C8_Witness ==
    /\ getter = "get_f64"
    /\ ~HasWhitespace(expr)
    /\ FirstUsable(data, expr) = Some(YInteger(BigOdd))
    /\ result = Ok([neg |-> FALSE, bits |-> {F64Precision}])

\* C9: no fallback after a coercion failure. The call settles on the first
\* alternative that walks to a usable node and returns what the getter
\* returns on that alternative alone; when the coercion rejects its node the
\* result is Invalid with the getter's label and that node, whatever later
\* alternatives hold; the coercion runs at most once.
C9_NoFallbackAfterCoercionFailure ==
    (Called /\ ~HasWhitespace(expr)) =>
        /\ parserCalls <= 1
        /\ UsableAlts(data, expr) # {} =>
            /\ result = Outcome(getter, data, Alts(expr)[MinOf(UsableAlts(data, expr))]).res
            /\ parserCalls = 1
            /\ ~Accepts(getter, Unwrap(FirstUsable(data, expr))) =>
                    result = Invalid(LabelOf(getter), Unwrap(FirstUsable(data, expr)))

\* a call that returned Invalid although a later alternative holds a node
\* the coercion accepts
C9_Witness ==
    /\ Called
    /\ ~HasWhitespace(expr)
    /\ result.kind = "Invalid"
    /\ \E n \in UsableAlts(data, expr) :
        /\ n > MinOf(UsableAlts(data, expr))
        /\ Accepts(getter, Unwrap(Usable(data, Alts(expr)[n])))

\* the walker stands on a scalar or on nothing while segments of segs remain
TooLong(d, segs) ==
    \E k \in 0..(Len(segs) - 1) :
        LET r == Reached(d, segs, k) IN ~IsSome(r) \/ Scalar(Unwrap(r))

\* C10: path longer than the data. An alternative whose walk reaches a scalar
\* or an absent child with segments left resolves to nothing, without error;
\* a call all of whose alternatives end so yields Missing;
\* {offer_date: "08.11.2019"} yields Missing on "offer.date" and on
\* "offer_date.x".
C10_PathLongerThanData ==
    (Called /\ ~HasWhitespace(expr)) =>
        /\ \A n \in 1..Len(Alts(expr)) :
            TooLong(data, Segs(Alts(expr)[n])) =>
                /\ get_path(data, Segs(Alts(expr)[n])) = None
                /\ get_direct(data, Alts(expr)[n]) = None
        /\ (\A n \in 1..Len(Alts(expr)) : TooLong(data, Segs(Alts(expr)[n]))) => result = Missing
        /\ (data = D_Fallback /\ expr \in {P_offer_date, S_offer_date \o <<".", "x">>}) => result = Missing
        /\ result # Panicked

\* a call on "offer_date.x" where offer_date holds a String
C10_Witness ==
    /\ Called
    /\ data = D_Fallback
    /\ expr = S_offer_date \o <<".", "x">>
    /\ Reached(data, Segs(expr), 1) = Some(YString(S_0811))
    /\ result = Missing

====
